---- MODULE Spec2Model ----
(***************************************************************************)
(* Model of go/tools/tools.go (package tools of the "releasing"            *)
(* application): the versioning configuration, the three indices built     *)
(* from it and from a walk of the repository tree, and the tag-name        *)
(* conversions.                                                            *)
(*                                                                         *)
(* Strings that the code takes apart (file paths, tag names) are sequences *)
(* of one-character strings.  Module import paths, set names and versions  *)
(* are only compared and used as map keys, so they are plain strings.      *)
(* A Go map is a function; a nil map and an empty map are both <<>>.       *)
(* A Go (value, error) pair is a record [val, err]; err.kind = "nil" is    *)
(* the nil error.                                                          *)
(***************************************************************************)
EXTENDS Integers, Sequences, FiniteSets, TLC

VARIABLES
    vCfg,          \* the versionConfig the index builders are called on
    tree,          \* the repository snapshot filepath.Walk enumerates
    modInfoRes,    \* what versionCfg.buildModuleMap() returned
    modPathRes,    \* what versionCfg.BuildModulePathMap(root) returned
    cfgFile,       \* the versioning file NewModuleVersioningInfo is given
    first,         \* what the first NewModuleVersioningInfo call returned
    second,        \* what a second call on the same inputs returned
    modFilePath,   \* argument of moduleFilePathToTagName
    repoRoot,      \* argument of moduleFilePathToTagName
    tagRes,        \* what moduleFilePathToTagName returned
    modPaths,      \* argument of modulePathsToFilePaths
    modPathMap,    \* argument of modulePathsToFilePaths
    filePathsRes   \* what modulePathsToFilePaths returned

vars == <<vCfg, tree, modInfoRes, modPathRes, cfgFile, first, second,
          modFilePath, repoRoot, tagRes, modPaths, modPathMap, filePathsRes>>

(***************************************************************************)
(* Bounds of the model.                                                    *)
(***************************************************************************)
\* longest modules list of a module set
MaxMods == 2
\* longest excluded-modules list
MaxExcl == 2
\* most files met by one walk of the repository tree
MaxFiles == 3
\* deepest manifest directory, in path segments
MaxDepth == 2
\* longest identifier list handed to modulePathsToFilePaths
MaxLookup == 3

SetNames == {"stable", "experimental"}
Modules  == {"otel", "otel/sdk"}
Versions == {"v1.0.0", "v0.1.0"}

SeqsUpTo(S, n) == UNION {[1..k -> S] : k \in 0..n}

\* every order in which the elements of S can be enumerated
Orders(S) == {o \in [1..Cardinality(S) -> S] : \A x \in S : \E i \in DOMAIN o : o[i] = x}

(***************************************************************************)
(* Values.                                                                 *)
(***************************************************************************)
NoErr == [kind |-> "nil"]

Unset == [done |-> FALSE, val |-> <<>>, err |-> NoErr]

Returned(val, err) == [done |-> TRUE, val |-> val, err |-> err]

ModuleSet(version, modules) == [Version |-> version, Modules |-> modules]

versionConfig(moduleSets, excludedModules) ==
    [ModuleSets |-> moduleSets, ExcludedModules |-> excludedModules]

\* versionConfig{}: what readVersioningFile returns beside an error
EmptyConfig == versionConfig(<<>>, <<>>)

\* ModuleInfo{setName, moduleSet.Version}
ModuleInfoSwapped(setName, moduleSet) ==
    [ModuleSetName |-> moduleSet.Version, Version |-> setName]

ModuleInfo(setName, moduleSet) ==
    [ModuleSetName |-> setName, Version |-> moduleSet.Version]

DuplicateErr(modPath, set1, set2) ==
    [kind |-> "duplicate", mod |-> modPath, set1 |-> set1, set2 |-> set2]

ExcludedErr(modPath) == [kind |-> "excluded", mod |-> modPath]

(***************************************************************************)
(* The exclusion set.                                                      *)
(***************************************************************************)
getExcludedModules(versionCfg) ==
    {versionCfg.ExcludedModules[i] : i \in DOMAIN versionCfg.ExcludedModules}

shouldExcludeNothing(versionCfg, modPath) == FALSE

shouldExcludeModule(versionCfg, modPath) ==
    modPath \in getExcludedModules(versionCfg)

(***************************************************************************)
(* The Module Set Index and the Module Info Index.                         *)
(***************************************************************************)
buildModuleSetsMap(versionCfg) == [val |-> versionCfg.ModuleSets, err |-> NoErr]

neverAdded(modMap, modPath) == FALSE

\* _, exists := modMap[modPath]
alreadyAdded(modMap, modPath) == modPath \in DOMAIN modMap

\* The two nested range loops, from set order[i] and its j-th module on.
\* order is the order in which this run's range over the ModuleSets map
\* yields the set names.
RECURSIVE buildModuleMapFrom(_, _, _, _, _)
buildModuleMapFrom(versionCfg, order, i, j, modMap) ==
    IF i > Len(order) THEN [val |-> modMap, err |-> NoErr]
    ELSE LET setName   == order[i]
             moduleSet == versionCfg.ModuleSets[setName]
         IN IF j > Len(moduleSet.Modules)
            THEN buildModuleMapFrom(versionCfg, order, i + 1, 1, modMap)
            ELSE LET modPath == moduleSet.Modules[j]
                 IN IF alreadyAdded(modMap, modPath)
                    THEN [val |-> <<>>,
                          err |-> DuplicateErr(modPath, modMap[modPath].ModuleSetName, setName)]
                    ELSE IF shouldExcludeModule(versionCfg, modPath)
                    THEN [val |-> <<>>, err |-> ExcludedErr(modPath)]
                    ELSE buildModuleMapFrom(versionCfg, order, i, j + 1,
                             (modPath :> ModuleInfo(setName, moduleSet)) @@ modMap)

buildModuleMap(versionCfg, order) ==
    buildModuleMapFrom(versionCfg, order, 1, 1, <<>>)

(***************************************************************************)
(* Strings and file paths, as the strings and path/filepath packages treat *)
(* them.                                                                   *)
(***************************************************************************)
Slash == <<"/">>

\* "go.mod"
GoMod == <<"g", "o", ".", "m", "o", "d">>

\* "main.go", a file that is no manifest
MainGo == <<"m", "a", "i", "n", ".", "g", "o">>

\* const repoRootTag = ModuleTagName("repoRootTag")
repoRootTag == <<"r", "e", "p", "o", "R", "o", "o", "t", "T", "a", "g">>

HasPrefix(s, prefix) ==
    Len(prefix) <= Len(s) /\ SubSeq(s, 1, Len(prefix)) = prefix

HasSuffix(s, suffix) ==
    Len(suffix) <= Len(s) /\ SubSeq(s, Len(s) - Len(suffix) + 1, Len(s)) = suffix

TrimPrefix(s, prefix) ==
    IF HasPrefix(s, prefix) THEN SubSeq(s, Len(prefix) + 1, Len(s)) ELSE s

TrimSuffix(s, suffix) ==
    IF HasSuffix(s, suffix) THEN SubSeq(s, 1, Len(s) - Len(suffix)) ELSE s

\* filepath.Base: the last element of the path, trailing separators removed
Base(path) ==
    IF path = <<>> THEN <<".">>
    ELSE LET ends  == {i \in 1..Len(path) : path[i] # "/"}
         IN IF ends = {} THEN Slash
            ELSE LET last   == CHOOSE i \in ends : \A k \in ends : k <= i
                     slashes == {i \in 1..last : path[i] = "/"}
                     from    == IF slashes = {} THEN 1
                                ELSE 1 + CHOOSE i \in slashes : \A k \in slashes : k <= i
                 IN SubSeq(path, from, last)

(***************************************************************************)
(* The repository snapshot.  tree.root is the root path, tree.rootExists   *)
(* says whether os.Lstat(root) succeeds, and tree.nodes are the files      *)
(* below the root in the lexical order in which filepath.Walk visits them. *)
(* A node is [path, statErr, readable, module]: statErr, Walk hands the    *)
(* callback an error for it; readable, ioutil.ReadFile succeeds on it;     *)
(* module, what modfile.ModulePath finds in its bytes ("" when it declares *)
(* no module).  Directories are visited too; one whose name is not go.mod  *)
(* falls through the callback, and one named go.mod is a node that cannot  *)
(* be read.                                                                *)
(***************************************************************************)
RepoRoot == <<"/", "r">>

Digits == <<"1", "2", "3", "4", "5", "6", "7", "8", "9">>

\* the i-th directory below the root, in lexical order
DirName(i) == <<"d", Digits[i]>>

NodeKinds ==
    {[name |-> GoMod, statErr |-> TRUE, readable |-> FALSE, module |-> ""],
     [name |-> GoMod, statErr |-> FALSE, readable |-> FALSE, module |-> ""],
     [name |-> MainGo, statErr |-> FALSE, readable |-> TRUE, module |-> ""]}
    \cup {[name |-> GoMod, statErr |-> FALSE, readable |-> TRUE, module |-> m] :
             m \in Modules \cup {""}}

\* filepath.Join(filepath.Join(root, dir), name)
NodePath(root, i, name) == root \o Slash \o DirName(i) \o Slash \o name

Tree(root, rootExists, kinds) ==
    [root |-> root, rootExists |-> rootExists,
     nodes |-> [i \in DOMAIN kinds |->
                   [path |-> NodePath(root, i, kinds[i].name),
                    statErr |-> kinds[i].statErr,
                    readable |-> kinds[i].readable,
                    module |-> kinds[i].module]]]

\* a root that os.Lstat cannot find
MissingRoot == Tree(RepoRoot, FALSE, <<>>)

Trees == {MissingRoot} \cup {Tree(RepoRoot, TRUE, kinds) : kinds \in SeqsUpTo(NodeKinds, MaxFiles)}

(***************************************************************************)
(* The Module Path Index.                                                  *)
(***************************************************************************)
ReadErr(path) == [kind |-> "read", path |-> path]

\* the callback findGoMod on one node: [err, modPathMap]
findGoMod(versionCfg, node, pathMap) ==
    IF node.statErr
    THEN \* Warning: file could not be read during filepath.Walk()
         [err |-> NoErr, modPathMap |-> pathMap]
    ELSE IF Base(node.path) = GoMod
    THEN IF ~node.readable
         THEN [err |-> ReadErr(node.path), modPathMap |-> pathMap]
         ELSE IF node.module \notin getExcludedModules(versionCfg)
         THEN [err |-> NoErr, modPathMap |-> (node.module :> node.path) @@ pathMap]
         ELSE [err |-> NoErr, modPathMap |-> pathMap]
    ELSE [err |-> NoErr, modPathMap |-> pathMap]

\* filepath.Walk from the i-th node on: the first error the callback
\* returns ends the walk and is Walk's own result.
RECURSIVE WalkFrom(_, _, _, _)
WalkFrom(versionCfg, nodes, i, pathMap) ==
    IF i > Len(nodes) THEN [err |-> NoErr, modPathMap |-> pathMap]
    ELSE LET r == findGoMod(versionCfg, nodes[i], pathMap)
         IN IF r.err.kind # "nil" THEN r
            ELSE WalkFrom(versionCfg, nodes, i + 1, r.modPathMap)

\* filepath.Walk(root, findGoMod).  When os.Lstat(root) fails, Walk calls
\* the callback once, with that error, and returns what the callback
\* returns: findGoMod answers any error it is handed with nil.
Walk(versionCfg, t) ==
    IF ~t.rootExists
    THEN [err |-> NoErr, modPathMap |-> <<>>]
    ELSE WalkFrom(versionCfg, t.nodes, 1, <<>>)

BuildModulePathMap(versionCfg, t) ==
    LET w == Walk(versionCfg, t)
    IN IF w.err.kind # "nil" THEN [val |-> <<>>, err |-> w.err]
       ELSE [val |-> w.modPathMap, err |-> NoErr]

(***************************************************************************)
(* The configurations and the index builders as operations on one.         *)
(***************************************************************************)
ModuleSetMaps ==
    UNION {[names -> {ModuleSet(v, ms) : v \in Versions, ms \in SeqsUpTo(Modules, MaxMods)}] :
              names \in SUBSET SetNames}

Configs ==
    {versionConfig(sets, excl) :
        sets \in ModuleSetMaps, excl \in SeqsUpTo(Modules, MaxExcl)}

\* a few repository snapshots, for the runs that range over every configuration
Snapshots ==
    LET manifest(m) == [name |-> GoMod, statErr |-> FALSE, readable |-> TRUE, module |-> m]
        unreadable  == [name |-> GoMod, statErr |-> FALSE, readable |-> FALSE, module |-> ""]
    IN {MissingRoot,
        Tree(RepoRoot, TRUE, <<manifest("otel"), manifest("otel/sdk")>>),
        Tree(RepoRoot, TRUE, <<manifest("otel/sdk"), unreadable>>),
        Tree(RepoRoot, TRUE, <<manifest("otel/sdk"), manifest("otel"), manifest("otel/sdk")>>)}

Idle ==
    /\ cfgFile = <<>> /\ first = Unset /\ second = Unset
    /\ modFilePath = <<>> /\ repoRoot = <<>> /\ tagRes = Unset
    /\ modPaths = <<>> /\ modPathMap = <<>> /\ filePathsRes = Unset

\* every configuration, on a few snapshots
InitIndices ==
    /\ vCfg \in Configs
    /\ tree \in Snapshots
    /\ modInfoRes = Unset /\ modPathRes = Unset
    /\ Idle

\* every snapshot, under every exclusion list
InitWalk ==
    /\ vCfg \in {versionConfig(<<>>, excl) : excl \in SeqsUpTo(Modules, MaxExcl)}
    /\ tree \in Trees
    /\ modInfoRes = Unset /\ modPathRes = Unset
    /\ Idle

\* versionCfg.buildModuleMap(): the range over the ModuleSets map yields
\* the sets in an order of the runtime's choosing.
BuildModuleMap ==
    /\ ~modInfoRes.done
    /\ \E order \in Orders(DOMAIN vCfg.ModuleSets) :
           LET r == buildModuleMap(vCfg, order)
           IN modInfoRes' = Returned(r.val, r.err)
    /\ UNCHANGED <<vCfg, tree, modPathRes, cfgFile, first, second,
                   modFilePath, repoRoot, tagRes, modPaths, modPathMap, filePathsRes>>

\* versionCfg.BuildModulePathMap(root)
BuildPathMap ==
    /\ ~modPathRes.done
    /\ LET r == BuildModulePathMap(vCfg, tree)
       IN modPathRes' = Returned(r.val, r.err)
    /\ UNCHANGED <<vCfg, tree, modInfoRes, cfgFile, first, second,
                   modFilePath, repoRoot, tagRes, modPaths, modPathMap, filePathsRes>>

NextIndices == BuildModuleMap \/ BuildPathMap

SpecIndices == InitIndices /\ [][NextIndices]_vars

SpecWalk == InitWalk /\ [][NextIndices]_vars

(***************************************************************************)
(* What a configuration lists, read off the configuration itself.          *)
(***************************************************************************)
Listed(cfg, setName) ==
    {cfg.ModuleSets[setName].Modules[i] : i \in DOMAIN cfg.ModuleSets[setName].Modules}

AllListed(cfg) == UNION {Listed(cfg, s) : s \in DOMAIN cfg.ModuleSets}

ExclusionList(cfg) == {cfg.ExcludedModules[i] : i \in DOMAIN cfg.ExcludedModules}

ListedAndExcluded(cfg) == AllListed(cfg) \cap ExclusionList(cfg)

InTwoSets(cfg) ==
    \E s1, s2 \in DOMAIN cfg.ModuleSets : s1 # s2 /\ Listed(cfg, s1) \cap Listed(cfg, s2) # {}

TwiceInOneSet(cfg) ==
    \E s \in DOMAIN cfg.ModuleSets :
        \E i, j \in DOMAIN cfg.ModuleSets[s].Modules :
            i # j /\ cfg.ModuleSets[s].Modules[i] = cfg.ModuleSets[s].Modules[j]

ListedOnce(cfg) == ~InTwoSets(cfg) /\ ~TwiceInOneSet(cfg)

\* map is the inverse of cfg.ModuleSets
IsInverse(cfg, map) ==
    /\ DOMAIN map = AllListed(cfg)
    /\ \A m \in DOMAIN map :
           \E s \in DOMAIN cfg.ModuleSets :
               /\ m \in Listed(cfg, s)
               /\ map[m] = [ModuleSetName |-> s, Version |-> cfg.ModuleSets[s].Version]

(***************************************************************************)
(* C1, as stated: when some identifier is listed in two different module   *)
(* sets, buildModuleMap fails with the duplicate-module error, whatever    *)
(* the iteration order and whatever the exclusion list holds.              *)
(***************************************************************************)
C1_DuplicateErrorWhateverExcluded ==
    (modInfoRes.done /\ InTwoSets(vCfg)) => modInfoRes.err.kind = "duplicate"

(***************************************************************************)
(* C1, amended: when some identifier is listed in two different module     *)
(* sets, buildModuleMap fails in every iteration order; the error is the   *)
(* duplicate-module error, naming two sets that list the identifier, when  *)
(* no listed identifier is in the exclusion list, and otherwise that error *)
(* or the excluded-module error for a listed, excluded identifier.         *)
(***************************************************************************)
C1_DuplicateFails ==
    (modInfoRes.done /\ InTwoSets(vCfg)) =>
        LET err == modInfoRes.err
        IN /\ err.kind \in {"duplicate", "excluded"}
           /\ modInfoRes.val = <<>>
           /\ ListedAndExcluded(vCfg) = {} => err.kind = "duplicate"
           /\ err.kind = "duplicate" =>
                  /\ err.set1 \in DOMAIN vCfg.ModuleSets
                  /\ err.set2 \in DOMAIN vCfg.ModuleSets
                  /\ err.mod \in Listed(vCfg, err.set1) \cap Listed(vCfg, err.set2)
           /\ err.kind = "excluded" => err.mod \in ListedAndExcluded(vCfg)

C1_Witness ==
    /\ modInfoRes.done /\ InTwoSets(vCfg) /\ ~TwiceInOneSet(vCfg)
    /\ ListedAndExcluded(vCfg) = {}
    /\ Cardinality(AllListed(vCfg)) = 2
    /\ modInfoRes.err.kind = "duplicate"
    /\ modInfoRes.err.set1 = "experimental" /\ modInfoRes.err.set2 = "stable"

(***************************************************************************)
(* C2, as stated: buildModuleMap fails with the excluded-module error      *)
(* whenever a listed identifier is in the exclusion list, and after a      *)
(* successful construction no excluded identifier is a key of the Module   *)
(* Info Index or of the Module Path Index.                                 *)
(***************************************************************************)
C2_ExcludedErrorWheneverListed ==
    /\ (modInfoRes.done /\ ListedAndExcluded(vCfg) # {}) => modInfoRes.err.kind = "excluded"
    /\ (modInfoRes.done /\ modInfoRes.err.kind = "nil") =>
           DOMAIN modInfoRes.val \cap ExclusionList(vCfg) = {}
    /\ (modPathRes.done /\ modPathRes.err.kind = "nil") =>
           DOMAIN modPathRes.val \cap ExclusionList(vCfg) = {}

(***************************************************************************)
(* C2, amended: buildModuleMap fails whenever a listed identifier is in    *)
(* the exclusion list, with the excluded-module error when no identifier   *)
(* is listed more than once and otherwise with that error or the           *)
(* duplicate-module error; and after a successful construction no          *)
(* excluded identifier is a key of the Module Info Index or of the Module  *)
(* Path Index, even when the walk finds a manifest declaring it.           *)
(***************************************************************************)
C2_ExcludedNeverSurface ==
    /\ (modInfoRes.done /\ ListedAndExcluded(vCfg) # {}) =>
           /\ modInfoRes.err.kind \in {"excluded", "duplicate"}
           /\ modInfoRes.val = <<>>
           /\ ListedOnce(vCfg) => modInfoRes.err.kind = "excluded"
    /\ (modInfoRes.done /\ modInfoRes.err.kind = "nil") =>
           DOMAIN modInfoRes.val \cap ExclusionList(vCfg) = {}
    /\ (modPathRes.done /\ modPathRes.err.kind = "nil") =>
           DOMAIN modPathRes.val \cap ExclusionList(vCfg) = {}

C2_Witness ==
    /\ modInfoRes.done /\ modInfoRes.err.kind = "excluded"
    /\ modPathRes.done /\ modPathRes.err.kind = "nil"
    /\ DOMAIN modPathRes.val # {}
    /\ \E i \in DOMAIN tree.nodes :
           /\ tree.nodes[i].readable /\ ~tree.nodes[i].statErr
           /\ Base(tree.nodes[i].path) = GoMod
           /\ tree.nodes[i].module \in ListedAndExcluded(vCfg)

(***************************************************************************)
(* C10, as stated: when no identifier is assigned to two different module  *)
(* sets and no listed identifier is excluded, buildModuleMap succeeds and  *)
(* the Module Info Index is the inverse of the Module Set Index.           *)
(***************************************************************************)
C10_InverseUnlessInTwoSets ==
    (modInfoRes.done /\ ~InTwoSets(vCfg) /\ ListedAndExcluded(vCfg) = {}) =>
        /\ modInfoRes.err.kind = "nil"
        /\ IsInverse(vCfg, modInfoRes.val)

(***************************************************************************)
(* C10, amended: when no identifier is listed more than once, in the same  *)
(* set or in two sets, and no listed identifier is excluded,               *)
(* buildModuleMap succeeds and the Module Info Index is the inverse of the *)
(* Module Set Index: its keys are the listed identifiers, each mapped to   *)
(* the name and version of the set that lists it.                          *)
(***************************************************************************)
C10_InverseWhenListedOnce ==
    (modInfoRes.done /\ ListedOnce(vCfg) /\ ListedAndExcluded(vCfg) = {}) =>
        /\ modInfoRes.err.kind = "nil"
        /\ IsInverse(vCfg, modInfoRes.val)

C10_Witness ==
    /\ modInfoRes.done /\ modInfoRes.err.kind = "nil"
    /\ ListedOnce(vCfg) /\ ListedAndExcluded(vCfg) = {}
    /\ DOMAIN vCfg.ModuleSets = SetNames
    /\ \A s \in SetNames : Listed(vCfg, s) # {}
    /\ vCfg.ModuleSets["stable"].Version # vCfg.ModuleSets["experimental"].Version
    /\ DOMAIN modInfoRes.val = Modules

(***************************************************************************)
(* The manifests of a snapshot, read off the snapshot itself.              *)
(***************************************************************************)
IsManifest(node) == ~node.statErr /\ Base(node.path) = GoMod

UnreadableManifests(t) ==
    {i \in DOMAIN t.nodes : IsManifest(t.nodes[i]) /\ ~t.nodes[i].readable}

Recorded(cfg, t) ==
    {i \in DOMAIN t.nodes :
        /\ IsManifest(t.nodes[i]) /\ t.nodes[i].readable
        /\ t.nodes[i].module \notin ExclusionList(cfg)}

\* the entries of the readable, non-excluded manifests, the one met last
\* standing for an identifier declared more than once
ExpectedPathIndex(cfg, t) ==
    [m \in {t.nodes[i].module : i \in Recorded(cfg, t)} |->
        LET at == {i \in Recorded(cfg, t) : t.nodes[i].module = m}
        IN t.nodes[CHOOSE i \in at : \A k \in at : k <= i].path]

(***************************************************************************)
(* C3: a read error on one manifest does not abort the walk: for a tree    *)
(* with one unreadable manifest and any number of readable ones,           *)
(* BuildModulePathMap succeeds and returns exactly the entries of the      *)
(* readable, non-excluded manifests.                                       *)
(***************************************************************************)
C3_UnreadableManifestSkipped ==
    (modPathRes.done /\ tree.rootExists /\ Cardinality(UnreadableManifests(tree)) = 1) =>
        /\ modPathRes.err.kind = "nil"
        /\ modPathRes.val = ExpectedPathIndex(vCfg, tree)

(***************************************************************************)
(* C4: when the root cannot be enumerated at all, BuildModulePathMap       *)
(* returns an error and no index, never a successful empty index.          *)
(***************************************************************************)
C4_MissingRootIsError ==
    (modPathRes.done /\ ~tree.rootExists) => modPathRes.err.kind # "nil"

(***************************************************************************)
(* The facade.                                                             *)
(***************************************************************************)
\* a versioning file: viper can read and unmarshal it ("ok", into cfg),
\* cannot read it ("unreadable") or cannot unmarshal it ("malformed")
VersioningFiles ==
    {[status |-> "ok", cfg |-> c] : c \in Configs}
    \cup {[status |-> st, cfg |-> EmptyConfig] : st \in {"unreadable", "malformed"}}

readVersioningFile(file) ==
    IF file.status = "unreadable"
    THEN [val |-> EmptyConfig, err |-> [kind |-> "readInConfig"]]
    ELSE IF file.status = "malformed"
    THEN [val |-> EmptyConfig, err |-> [kind |-> "unmarshal"]]
    ELSE [val |-> file.cfg, err |-> NoErr]

ModuleVersioning(modSetMap, modPathMap_, modInfoMap) ==
    [ModSetMap |-> modSetMap, ModPathMap |-> modPathMap_, ModInfoMap |-> modInfoMap]

\* ModuleVersioning{}
EmptyFacade == ModuleVersioning(<<>>, <<>>, <<>>)

WrapErr(step, cause) == [kind |-> "wrapped", step |-> step, cause |-> cause]

\* vCfg, _ := readVersioningFile(versioningFilename)
NewModuleVersioningInfo(file, t, order) ==
    LET cfg     == readVersioningFile(file).val
        setsMap == buildModuleSetsMap(cfg)
        infoMap == buildModuleMap(cfg, order)
        pathMap == BuildModulePathMap(cfg, t)
    IN IF setsMap.err.kind # "nil"
       THEN [val |-> EmptyFacade, err |-> WrapErr("module set map", setsMap.err)]
       ELSE IF infoMap.err.kind # "nil"
       THEN [val |-> EmptyFacade, err |-> WrapErr("module info map", infoMap.err)]
       ELSE IF pathMap.err.kind # "nil"
       THEN [val |-> EmptyFacade, err |-> WrapErr("module path map", pathMap.err)]
       ELSE [val |-> ModuleVersioning(setsMap.val, pathMap.val, infoMap.val), err |-> NoErr]

Init ==
    /\ cfgFile \in VersioningFiles
    /\ tree \in Snapshots
    /\ first = Unset /\ second = Unset
    /\ vCfg = EmptyConfig /\ modInfoRes = Unset /\ modPathRes = Unset
    /\ modFilePath = <<>> /\ repoRoot = <<>> /\ tagRes = Unset
    /\ modPaths = <<>> /\ modPathMap = <<>> /\ filePathsRes = Unset

\* NewModuleVersioningInfo(versioningFilename, repoRoot)
Construct ==
    /\ ~first.done
    /\ \E order \in Orders(DOMAIN readVersioningFile(cfgFile).val.ModuleSets) :
           LET r == NewModuleVersioningInfo(cfgFile, tree, order)
           IN first' = Returned(r.val, r.err)
    /\ UNCHANGED <<vCfg, tree, modInfoRes, modPathRes, cfgFile, second,
                   modFilePath, repoRoot, tagRes, modPaths, modPathMap, filePathsRes>>

\* a second construction from the same file and the same snapshot
ConstructAgain ==
    /\ first.done /\ ~second.done
    /\ \E order \in Orders(DOMAIN readVersioningFile(cfgFile).val.ModuleSets) :
           LET r == NewModuleVersioningInfo(cfgFile, tree, order)
           IN second' = Returned(r.val, r.err)
    /\ UNCHANGED <<vCfg, tree, modInfoRes, modPathRes, cfgFile, first,
                   modFilePath, repoRoot, tagRes, modPaths, modPathMap, filePathsRes>>

Next == Construct \/ ConstructAgain

Spec == Init /\ [][Next]_vars

(***************************************************************************)
(* C8: whenever a step of the construction fails (reading the              *)
(* configuration, or building one of the three indices)                    *)
(* NewModuleVersioningInfo returns an error together with an empty facade. *)
(***************************************************************************)
C8_FailedStepFailsConstruction ==
    first.done =>
        LET read == readVersioningFile(cfgFile)
            stepFailed ==
                \/ read.err.kind # "nil"
                \/ buildModuleSetsMap(read.val).err.kind # "nil"
                \/ \A order \in Orders(DOMAIN read.val.ModuleSets) :
                       buildModuleMap(read.val, order).err.kind # "nil"
                \/ BuildModulePathMap(read.val, tree).err.kind # "nil"
        IN stepFailed => (first.err.kind # "nil" /\ first.val = EmptyFacade)

(***************************************************************************)
(* C9: two constructions from the same configuration and the same          *)
(* snapshot have the same outcome whatever order each iterates the module  *)
(* sets in: both fail, or both succeed with equal Module Set, Module Info  *)
(* and Module Path mappings.                                               *)
(***************************************************************************)
C9_SameOutcomeInAnyOrder ==
    (first.done /\ second.done) =>
        /\ first.err.kind = "nil" <=> second.err.kind = "nil"
        /\ first.err.kind = "nil" => first.val = second.val

\* the two runs met the sets in different orders and report different errors
C9_Witness ==
    /\ first.done /\ second.done
    /\ first.err.kind = "wrapped" /\ second.err.kind = "wrapped"
    /\ first.err.cause.kind = "duplicate" /\ second.err.cause.kind = "duplicate"
    /\ first.err.cause.set1 # second.err.cause.set1

(***************************************************************************)
(* Tag names.                                                              *)
(***************************************************************************)
OutsideRepoErr == [kind |-> "not contained in repo"]

NotGoModErr == [kind |-> "does not end with go.mod"]

moduleFilePathToTagName(path, root) ==
    IF ~HasPrefix(path, root \o Slash)
    THEN [val |-> <<>>, err |-> OutsideRepoErr]
    ELSE IF ~HasSuffix(path, GoMod)
    THEN [val |-> <<>>, err |-> NotGoModErr]
    ELSE LET modTagNameWithGoMod == TrimPrefix(path, root \o Slash)
             modTagName          == TrimSuffix(modTagNameWithGoMod, Slash \o GoMod)
         IN IF modTagName = GoMod
            THEN [val |-> repoRootTag, err |-> NoErr]
            ELSE [val |-> modTagName, err |-> NoErr]

CombineModuleTagNamesAndVersion(modTagNames, version) ==
    [i \in DOMAIN modTagNames |->
        IF modTagNames[i] = repoRootTag THEN version
        ELSE modTagNames[i] \o Slash \o version]

\* the roots and the path segments the conversion is tried on
Roots == {<<"/", "r">>, <<"/", "w">>, <<"/", "r", "/", "w">>}

Segments == {<<"a">>, <<"s", "d", "k">>, GoMod, repoRootTag}

\* the relative directories of at most n segments
RECURSIVE DirsUpTo(_)
DirsUpTo(n) ==
    IF n <= 1 THEN Segments
    ELSE DirsUpTo(n - 1) \cup {d \o Slash \o seg : d \in DirsUpTo(n - 1), seg \in Segments}

Dirs == DirsUpTo(MaxDepth)

FileNames == {GoMod, MainGo, <<"x">> \o GoMod}

FilePaths ==
    {prefix \o Slash \o name : prefix \in Roots, name \in FileNames}
    \cup {prefix \o Slash \o dir \o Slash \o name :
             prefix \in Roots, dir \in Dirs, name \in FileNames}

InitTagName ==
    /\ modFilePath \in FilePaths
    /\ repoRoot \in Roots
    /\ tagRes = Unset
    /\ vCfg = EmptyConfig /\ tree = MissingRoot
    /\ modInfoRes = Unset /\ modPathRes = Unset
    /\ cfgFile = <<>> /\ first = Unset /\ second = Unset
    /\ modPaths = <<>> /\ modPathMap = <<>> /\ filePathsRes = Unset

\* moduleFilePathToTagName(modFilePath, repoRoot)
ModuleFilePathToTagName ==
    /\ ~tagRes.done
    /\ LET r == moduleFilePathToTagName(modFilePath, repoRoot)
       IN tagRes' = Returned(r.val, r.err)
    /\ UNCHANGED <<vCfg, tree, modInfoRes, modPathRes, cfgFile, first, second,
                   modFilePath, repoRoot, modPaths, modPathMap, filePathsRes>>

NextTagName == ModuleFilePathToTagName

SpecTagName == InitTagName /\ [][NextTagName]_vars

(***************************************************************************)
(* C5: the conversion inverts the construction of the path: for every root *)
(* and every non-empty relative directory dir, the path                    *)
(* root + "/" + dir + "/go.mod" converts to dir, and root + "/go.mod"      *)
(* converts to the root sentinel.                                          *)
(***************************************************************************)
C5_TagNameInvertsPath ==
    tagRes.done =>
        /\ \A dir \in Dirs :
               modFilePath = repoRoot \o Slash \o dir \o Slash \o GoMod =>
                   (tagRes.err.kind = "nil" /\ tagRes.val = dir)
        /\ modFilePath = repoRoot \o Slash \o GoMod =>
               (tagRes.err.kind = "nil" /\ tagRes.val = repoRootTag)

(***************************************************************************)
(* C6: the conversion yields the root sentinel, the tag name that          *)
(* CombineModuleTagNamesAndVersion turns into the bare version, if and     *)
(* only if the path is exactly root + "/go.mod".                           *)
(***************************************************************************)
C6_SentinelOnlyForRootManifest ==
    (tagRes.done /\ tagRes.err.kind = "nil") =>
        LET version == <<"v", "1">>
            bare    == CombineModuleTagNamesAndVersion(<<tagRes.val>>, version) = <<version>>
        IN bare <=> modFilePath = repoRoot \o Slash \o GoMod

(***************************************************************************)
(* Looking identifiers up in the Module Path Index.                        *)
(***************************************************************************)
UnknownModuleErr(modPath) == [kind |-> "could not find module path", mod |-> modPath]

notFoundKeepingPaths(modFilePaths, modPath) ==
    [val |-> modFilePaths, err |-> UnknownModuleErr(modPath)]

\* return []ModuleFilePath{}, fmt.Errorf("could not find module path %v in path map.", modPath)
notFound(modFilePaths, modPath) ==
    [val |-> <<>>, err |-> UnknownModuleErr(modPath)]

\* the range loop from the i-th identifier on
RECURSIVE modulePathsToFilePathsFrom(_, _, _, _)
modulePathsToFilePathsFrom(paths, pathMap, i, modFilePaths) ==
    IF i > Len(paths) THEN [val |-> modFilePaths, err |-> NoErr]
    ELSE IF paths[i] \notin DOMAIN pathMap
    THEN notFound(modFilePaths, paths[i])
    ELSE modulePathsToFilePathsFrom(paths, pathMap, i + 1,
             Append(modFilePaths, pathMap[paths[i]]))

modulePathsToFilePaths(paths, pathMap) ==
    modulePathsToFilePathsFrom(paths, pathMap, 1, <<>>)

\* the identifiers asked for: those of the configuration and one more
LookupIds == Modules \cup {"otel/trace"}

PathIndices ==
    UNION {[ms -> {NodePath(RepoRoot, 1, GoMod), NodePath(RepoRoot, 2, GoMod)}] :
              ms \in SUBSET Modules}

InitFilePaths ==
    /\ modPaths \in SeqsUpTo(LookupIds, MaxLookup)
    /\ modPathMap \in PathIndices
    /\ filePathsRes = Unset
    /\ vCfg = EmptyConfig /\ tree = MissingRoot
    /\ modInfoRes = Unset /\ modPathRes = Unset
    /\ cfgFile = <<>> /\ first = Unset /\ second = Unset
    /\ modFilePath = <<>> /\ repoRoot = <<>> /\ tagRes = Unset

\* modulePathsToFilePaths(modPaths, modPathMap)
ModulePathsToFilePaths ==
    /\ ~filePathsRes.done
    /\ LET r == modulePathsToFilePaths(modPaths, modPathMap)
       IN filePathsRes' = Returned(r.val, r.err)
    /\ UNCHANGED <<vCfg, tree, modInfoRes, modPathRes, cfgFile, first, second,
                   modFilePath, repoRoot, tagRes, modPaths, modPathMap>>

NextFilePaths == ModulePathsToFilePaths

SpecFilePaths == InitFilePaths /\ [][NextFilePaths]_vars

Absent == {i \in DOMAIN modPaths : modPaths[i] \notin DOMAIN modPathMap}

(***************************************************************************)
(* C7: modulePathsToFilePaths is fail-fast: if an identifier is absent     *)
(* from the index it returns an error naming the first absent one and no   *)
(* file paths at all; otherwise it returns the indexed paths in input      *)
(* order, one per identifier.                                              *)
(***************************************************************************)
C7_FailFastLookup ==
    filePathsRes.done =>
        IF Absent # {}
        THEN /\ filePathsRes.err.kind = "could not find module path"
             /\ filePathsRes.err.mod = modPaths[CHOOSE i \in Absent : \A k \in Absent : i <= k]
             /\ filePathsRes.val = <<>>
        ELSE /\ filePathsRes.err.kind = "nil"
             /\ Len(filePathsRes.val) = Len(modPaths)
             /\ \A i \in DOMAIN modPaths : filePathsRes.val[i] = modPathMap[modPaths[i]]

\* an identifier is missing after one that is indexed, and another follows
C7_Witness ==
    /\ filePathsRes.done
    /\ Len(modPaths) = 3
    /\ Absent = {2}
    /\ filePathsRes.err.kind = "could not find module path"
    /\ filePathsRes.err.mod = "otel/trace"

====
